---- MODULE Spec2Model ----
(***************************************************************************)
(* Model of the housing feasibility calculator: the engine of              *)
(* feasibility.py (compute_outputs, sensitivity) and the parameter         *)
(* handling of app.py (ensure_defaults, merge_patch, compute_if_possible,  *)
(* the usage quota and the chat / form handlers).                          *)
(*                                                                         *)
(* Python floats are modelled as exact rationals (normalised fractions):   *)
(* the model follows the real-number arithmetic of the code and does not   *)
(* represent IEEE rounding.                                                *)
(***************************************************************************)
EXTENDS Integers, Sequences, FiniteSets, TLC

VARIABLES
  inputs,        \* the parameter mapping (st.session_state.inputs, or the argument)
  usd_try_rate,  \* the exchange rate, None when it could not be fetched
  result,        \* what the last compute_outputs / compute_if_possible call returned
  panel,         \* what the results panel computed on the last script run
  sens,          \* what the last sensitivity call returned
  reply,         \* the kind of the assistant's last chat message
  store,         \* usage_store(): the day and the per-caller counts
  today,         \* date.today()
  supplied,      \* history: the last explicitly supplied coefficient / cost
  op,            \* the last operation
  calls,         \* per session: where its check_and_increment_quota call stands
  granted        \* history: per caller key and day, the calls of that day that returned True

vars ==
  <<inputs, usd_try_rate, result, panel, sens, reply, store, today, supplied, op, calls, granted>>

(***************************************************************************)
(* Values of the loosely typed parameter mapping: a number, None or a      *)
(* string (the empty string and the enum names).                           *)
(***************************************************************************)
Num(n, d) == [t |-> "num", n |-> n, d |-> d, s |-> ""]
None == [t |-> "none", n |-> 0, d |-> 1, s |-> ""]
Str(x) == [t |-> "str", n |-> 0, d |-> 1, s |-> x]
Whole(n) == Num(n, 1)

Abs(x) == IF x < 0 THEN -x ELSE x

RECURSIVE GCD(_, _)
GCD(a, b) == IF b = 0 THEN a ELSE GCD(b, a % b)

\* exact arithmetic on normalised fractions n/d with d > 0
RNorm(n, d) ==
  IF d = 1 THEN Num(n, 1)
  ELSE LET g == GCD(Abs(n), d) IN Num(n \div g, d \div g)
RMul(a, b) ==
  IF a.d = 1 /\ b.d = 1 THEN Num(a.n * b.n, 1)
  ELSE LET g1 == GCD(Abs(a.n), b.d)
           g2 == GCD(Abs(b.n), a.d)
       IN RNorm((a.n \div g1) * (b.n \div g2), (a.d \div g2) * (b.d \div g1))
RAdd(a, b) ==
  IF a.d = 1 /\ b.d = 1 THEN Num(a.n + b.n, 1)
  ELSE LET g == GCD(a.d, b.d)
       IN RNorm(a.n * (b.d \div g) + b.n * (a.d \div g), (a.d \div g) * b.d)
RNeg(a) == Num(-a.n, a.d)
RSub(a, b) == RAdd(a, RNeg(b))
RInv(a) == IF a.n > 0 THEN Num(a.d, a.n) ELSE Num(-a.d, -a.n)
RDiv(a, b) == RMul(a, RInv(b))
RLt(a, b) == a.n * b.d < b.n * a.d
RLe(a, b) == a.n * b.d <= b.n * a.d
RFloor(a) == a.n \div a.d
Zero == Whole(0)
One == Whole(1)

(***************************************************************************)
(* feasibility.py                                                          *)
(***************************************************************************)
OtoparkTipi == {"ACIK", "KAPALI"}
KonutSinifi == {"ALT", "ORTA", "YUKSEK"}

DEFAULTS ==
  [satilabilir_katsayi |-> Num(5, 4),
   otopark_katsayi |-> [ACIK |-> Num(6, 5), KAPALI |-> Num(8, 5)],
   insaat_maliyet_usd_m2 |-> [ALT |-> Whole(700), ORTA |-> Whole(900), YUKSEK |-> Whole(1100)],
   ortalama_konut_m2 |-> Whole(120)]

required == <<"arsa_alani_m2", "emsal", "otopark_tipi", "konut_sinifi", "arsa_toplam_degeri_usd">>

IsBlank_NoneOnly(v) == v = None

\* `x in [None, ""]`
IsBlank(v) == v = None \/ v = Str("")

\* dict.get(k, dflt)
Get(m, k, dflt) == IF k \in DOMAIN m THEN m[k] ELSE dflt

\* the exception float(v) raises, "" when it returns
FloatErr(v) ==
  IF v.t = "num" THEN "" ELSE IF v.t = "none" THEN "TypeError" ELSE "ValueError"

\* the exception DEFAULTS[table][v] raises, "" when the key exists
LookupErr(v, enum) == IF v.t = "str" /\ v.s \in enum THEN "" ELSE "KeyError"

Failure(err, field) == [kind |-> "error", err |-> err, field |-> field]

OutputFields ==
  {"emsal_insaat_alani_m2", "satilabilir_alan_m2", "toplam_insaat_alani_m2",
   "insaat_maliyeti_usd", "arsa_degeri_usd", "toplam_proje_maliyeti_usd",
   "insaat_maliyeti_try", "arsa_degeri_try", "toplam_proje_maliyeti_try",
   "yaklasik_konut_adedi", "kalan_satilabilir_alan_m2",
   "breakeven_usd_m2", "target_10_usd_m2", "target_30_usd_m2", "target_50_usd_m2",
   "breakeven_try_m2", "target_10_try_m2", "target_30_try_m2", "target_50_try_m2",
   "satis_birim_fiyat_usd_m2", "satis_birim_fiyat_try_m2",
   "proje_hasilati_usd", "proje_hasilati_try", "proje_kari_usd", "proje_kari_try",
   "brut_karlilik_orani"}

to_try_ZeroWithoutRate(x_usd, rate) ==
  IF x_usd = None THEN None
  ELSE IF rate = None THEN Zero
  ELSE RMul(x_usd, rate)

\* the nested to_try of compute_outputs
to_try(x_usd, rate) ==
  IF x_usd = None THEN None
  ELSE IF rate = None THEN None
  ELSE RMul(x_usd, rate)

target_price_usd_m2_NoMargin(toplam_maliyet, satilabilir, margin) ==
  IF RLt(Zero, satilabilir)
  THEN RDiv(toplam_maliyet, satilabilir)
  ELSE Zero

\* the nested target_price_usd_m2 of compute_outputs
target_price_usd_m2(toplam_maliyet, satilabilir, margin) ==
  IF RLt(Zero, satilabilir)
  THEN RDiv(RMul(toplam_maliyet, RAdd(One, margin)), satilabilir)
  ELSE Zero

\* the first exception raised by lines 33-53, as a Failure, or [kind |-> "ok"]
InputFailure(m) ==
  LET missing == {i \in 1..Len(required) :
                    required[i] \notin DOMAIN m \/ IsBlank(m[required[i]])}
      first == CHOOSE i \in missing : \A j \in missing : i <= j
      satis_raw == Get(m, "satis_birim_fiyat_usd_m2", None)
      conv == <<
        <<"arsa_alani_m2", FloatErr(m["arsa_alani_m2"])>>,
        <<"emsal", FloatErr(m["emsal"])>>,
        <<"satilabilir_katsayi", FloatErr(Get(m, "satilabilir_katsayi", One))>>,
        <<"otopark_tipi", LookupErr(m["otopark_tipi"], OtoparkTipi)>>,
        <<"otopark_katsayi", FloatErr(Get(m, "otopark_katsayi", One))>>,
        <<"konut_sinifi", LookupErr(m["konut_sinifi"], KonutSinifi)>>,
        <<"insaat_maliyet_usd_m2", FloatErr(Get(m, "insaat_maliyet_usd_m2", One))>>,
        <<"arsa_toplam_degeri_usd", FloatErr(m["arsa_toplam_degeri_usd"])>>,
        <<"ortalama_konut_m2", FloatErr(Get(m, "ortalama_konut_m2", One))>>,
        <<"satis_birim_fiyat_usd_m2",
          IF IsBlank(satis_raw) THEN "" ELSE FloatErr(satis_raw)>> >>
      bad == {i \in 1..Len(conv) : conv[i][2] # ""}
      firstBad == CHOOSE i \in bad : \A j \in bad : i <= j
  IN IF missing # {} THEN Failure("Eksik alan", required[first])
     ELSE IF bad # {} THEN Failure(conv[firstBad][2], conv[firstBad][1])
     ELSE [kind |-> "ok"]

\* the sanity checks of lines 147-159, in the order the code appends
SanityWarnings(emsal, arsa, sk, ok, arsa_degeri, birim) ==
  (IF RLe(emsal, Zero) THEN <<"emsal<=0">> ELSE <<>>)
  \o (IF RLe(arsa, Zero) THEN <<"arsa<=0">> ELSE <<>>)
  \o (IF RLe(sk, Zero) THEN <<"satilabilir_katsayi<=0">> ELSE <<>>)
  \o (IF RLe(ok, Zero) THEN <<"otopark_katsayi<=0">> ELSE <<>>)
  \o (IF RLt(arsa_degeri, Zero) THEN <<"arsa_degeri<0">> ELSE <<>>)
  \o (IF RLe(birim, Zero) THEN <<"insaat_maliyeti<=0">> ELSE <<>>)

\* the plausibility hints of lines 161-169
PlausibilityHints(emsal, sk, ort_konut, rate) ==
  (IF RLt(Whole(5), emsal) THEN <<"emsal>5">> ELSE <<>>)
  \o (IF RLt(sk, One) \/ RLt(Num(8, 5), sk) THEN <<"satilabilir_katsayi aralik">> ELSE <<>>)
  \o (IF RLt(ort_konut, Whole(60)) \/ RLt(Whole(250), ort_konut)
      THEN <<"ortalama_konut aralik">> ELSE <<>>)
  \o (IF rate = None THEN <<"kur yok">> ELSE <<>>)

\* the profitability flag of lines 171-179, gm being outputs["brut_karlilik_orani"]
ProfitabilityFlag_Inclusive(gm) ==
  IF gm = None THEN <<>>
  ELSE IF RLt(gm, Zero) THEN <<"zarar">>
  ELSE IF RLe(gm, Num(1, 10)) THEN <<"karlilik dusuk">>
  ELSE IF RLe(gm, Num(1, 5)) THEN <<"karlilik orta">>
  ELSE <<>>

ProfitabilityFlag(gm) ==
  IF gm = None THEN <<>>
  ELSE IF RLt(gm, Zero) THEN <<"zarar">>
  ELSE IF RLt(gm, Num(1, 10)) THEN <<"karlilik dusuk">>
  ELSE IF RLt(gm, Num(1, 5)) THEN <<"karlilik orta">>
  ELSE <<>>

\* the warning list of lines 144-179
Warnings_HintsFirst(emsal, arsa, sk, ok, arsa_degeri, birim, ort_konut, rate, gm) ==
  PlausibilityHints(emsal, sk, ort_konut, rate)
  \o SanityWarnings(emsal, arsa, sk, ok, arsa_degeri, birim)
  \o ProfitabilityFlag(gm)

Warnings(emsal, arsa, sk, ok, arsa_degeri, birim, ort_konut, rate, gm) ==
  SanityWarnings(emsal, arsa, sk, ok, arsa_degeri, birim)
  \o PlausibilityHints(emsal, sk, ort_konut, rate)
  \o ProfitabilityFlag(gm)

\* the unit count and the leftover area of lines 64-67
UnitCount_Nearest(satilabilir, ort_konut) ==
  LET konut_adedi_raw == IF RLt(Zero, ort_konut) THEN RDiv(satilabilir, ort_konut) ELSE Zero
      konut_adedi == IF RLt(Zero, konut_adedi_raw)
                     THEN RFloor(RAdd(konut_adedi_raw, Num(1, 2))) ELSE 0
  IN [konut_adedi |-> konut_adedi,
      kalan_alan |-> IF konut_adedi > 0
                     THEN RSub(satilabilir, RMul(Whole(konut_adedi), ort_konut))
                     ELSE satilabilir]

UnitCount(satilabilir, ort_konut) ==
  LET konut_adedi_raw == IF RLt(Zero, ort_konut) THEN RDiv(satilabilir, ort_konut) ELSE Zero
      konut_adedi == IF RLt(Zero, konut_adedi_raw) THEN RFloor(konut_adedi_raw) ELSE 0
  IN [konut_adedi |-> konut_adedi,
      kalan_alan |-> IF konut_adedi > 0
                     THEN RSub(satilabilir, RMul(Whole(konut_adedi), ort_konut))
                     ELSE satilabilir]

\* revenue mode, lines 130-142: revenue, profit and gross margin, None in cost-only mode
Revenue_NoMargin(satilabilir, toplam_maliyet, satis_fiyat) ==
  IF satis_fiyat # None /\ RLt(Zero, satis_fiyat)
  THEN LET hasilat == RMul(satilabilir, satis_fiyat)
       IN [hasilat |-> hasilat, kar |-> RSub(hasilat, toplam_maliyet), brut_karlilik |-> None]
  ELSE [hasilat |-> None, kar |-> None, brut_karlilik |-> None]

Revenue_CostNotDeducted(satilabilir, toplam_maliyet, satis_fiyat) ==
  IF satis_fiyat # None /\ RLt(Zero, satis_fiyat)
  THEN LET hasilat == RMul(satilabilir, satis_fiyat)
       IN [hasilat |-> hasilat,
           kar |-> hasilat,
           brut_karlilik |-> IF RLt(Zero, toplam_maliyet) THEN RDiv(hasilat, toplam_maliyet)
                             ELSE Zero]
  ELSE [hasilat |-> None, kar |-> None, brut_karlilik |-> None]

Revenue_SignSlip(satilabilir, toplam_maliyet, satis_fiyat) ==
  IF satis_fiyat # None /\ RLt(Zero, satis_fiyat)
  THEN LET hasilat == RMul(satilabilir, satis_fiyat)
           kar == RSub(toplam_maliyet, hasilat)
       IN [hasilat |-> hasilat,
           kar |-> kar,
           brut_karlilik |-> IF RLt(Zero, toplam_maliyet) THEN RDiv(kar, toplam_maliyet)
                             ELSE Zero]
  ELSE [hasilat |-> None, kar |-> None, brut_karlilik |-> None]

Revenue(satilabilir, toplam_maliyet, satis_fiyat) ==
  IF satis_fiyat # None /\ RLt(Zero, satis_fiyat)
  THEN LET hasilat == RMul(satilabilir, satis_fiyat)
           kar == RSub(hasilat, toplam_maliyet)
       IN [hasilat |-> hasilat,
           kar |-> kar,
           brut_karlilik |-> IF RLt(Zero, toplam_maliyet) THEN RDiv(kar, toplam_maliyet)
                             ELSE Zero]
  ELSE [hasilat |-> None, kar |-> None, brut_karlilik |-> None]

\* lines 64-142: the unit count, the target prices, revenue mode and the outputs
\* dict, from the areas and costs of lines 55-62
Outputs(emsal_insaat, satilabilir, insaat_alani, insaat_maliyeti, arsa_degeri, toplam_maliyet, ort_konut, satis_fiyat, rate) ==
  LET units == UnitCount(satilabilir, ort_konut)
      breakeven_usd_m2 == IF RLt(Zero, satilabilir)
                          THEN RDiv(toplam_maliyet, satilabilir) ELSE Zero
      target_10 == target_price_usd_m2(toplam_maliyet, satilabilir, Num(1, 10))
      target_30 == target_price_usd_m2(toplam_maliyet, satilabilir, Num(3, 10))
      target_50 == target_price_usd_m2(toplam_maliyet, satilabilir, Num(1, 2))
      rev == Revenue(satilabilir, toplam_maliyet, satis_fiyat)
  IN [emsal_insaat_alani_m2 |-> emsal_insaat,
      satilabilir_alan_m2 |-> satilabilir,
      toplam_insaat_alani_m2 |-> insaat_alani,
      insaat_maliyeti_usd |-> insaat_maliyeti,
      arsa_degeri_usd |-> arsa_degeri,
      toplam_proje_maliyeti_usd |-> toplam_maliyet,
      insaat_maliyeti_try |-> to_try(insaat_maliyeti, rate),
      arsa_degeri_try |-> to_try(arsa_degeri, rate),
      toplam_proje_maliyeti_try |-> to_try(toplam_maliyet, rate),
      yaklasik_konut_adedi |-> Whole(units.konut_adedi),
      kalan_satilabilir_alan_m2 |-> units.kalan_alan,
      breakeven_usd_m2 |-> breakeven_usd_m2,
      target_10_usd_m2 |-> target_10,
      target_30_usd_m2 |-> target_30,
      target_50_usd_m2 |-> target_50,
      breakeven_try_m2 |-> to_try(breakeven_usd_m2, rate),
      target_10_try_m2 |-> to_try(target_10, rate),
      target_30_try_m2 |-> to_try(target_30, rate),
      target_50_try_m2 |-> to_try(target_50, rate),
      satis_birim_fiyat_usd_m2 |-> satis_fiyat,
      satis_birim_fiyat_try_m2 |-> IF satis_fiyat # None THEN to_try(satis_fiyat, rate) ELSE None,
      proje_hasilati_usd |-> rev.hasilat,
      proje_hasilati_try |-> to_try(rev.hasilat, rate),
      proje_kari_usd |-> rev.kar,
      proje_kari_try |-> to_try(rev.kar, rate),
      brut_karlilik_orani |-> rev.brut_karlilik]

\* what compute_outputs returns: the outputs and the warnings of lines 144-179
Returned(outputs, emsal, arsa, sk, ok, arsa_degeri, birim, ort_konut, rate) ==
  [kind |-> "ok",
   outputs |-> outputs,
   warnings |-> Warnings(emsal, arsa, sk, ok, arsa_degeri, birim, ort_konut, rate,
                         outputs.brut_karlilik_orani)]

compute_outputs(m, rate) ==
  LET failure == InputFailure(m)
      arsa == m["arsa_alani_m2"]
      emsal == m["emsal"]
      satilabilir_katsayi == Get(m, "satilabilir_katsayi", DEFAULTS.satilabilir_katsayi)
      otopark_katsayi == Get(m, "otopark_katsayi", DEFAULTS.otopark_katsayi[m["otopark_tipi"].s])
      insaat_maliyet_birim ==
        Get(m, "insaat_maliyet_usd_m2", DEFAULTS.insaat_maliyet_usd_m2[m["konut_sinifi"].s])
      arsa_degeri == m["arsa_toplam_degeri_usd"]
      ort_konut == Get(m, "ortalama_konut_m2", DEFAULTS.ortalama_konut_m2)
      satis_fiyat_raw == Get(m, "satis_birim_fiyat_usd_m2", None)
      satis_fiyat == IF IsBlank(satis_fiyat_raw) THEN None ELSE satis_fiyat_raw
      emsal_insaat == RMul(arsa, emsal)
      satilabilir == RMul(emsal_insaat, satilabilir_katsayi)
      insaat_alani == RMul(satilabilir, otopark_katsayi)
      insaat_maliyeti == RMul(insaat_alani, insaat_maliyet_birim)
      toplam_maliyet == RAdd(insaat_maliyeti, arsa_degeri)
  IN IF failure.kind # "ok" THEN failure
     ELSE Returned(Outputs(emsal_insaat, satilabilir, insaat_alani, insaat_maliyeti,
                           arsa_degeri, toplam_maliyet, ort_konut, satis_fiyat, rate),
                   emsal, arsa, satilabilir_katsayi, otopark_katsayi, arsa_degeri,
                   insaat_maliyet_birim, ort_konut, rate)

\* dict item assignment m[k] = v
Put(m, k, v) == [x \in DOMAIN m \cup {k} |-> IF x = k THEN v ELSE m[x]]

sales_mults == <<Num(9, 10), One, Num(11, 10)>>
cost_mults == <<Num(9, 10), One, Num(11, 10)>>

CellInputs_IgnoreOverride(base, cm, sm) ==
  Put(Put(base, "satis_birim_fiyat_usd_m2", RMul(base["satis_birim_fiyat_usd_m2"], sm)),
      "insaat_maliyet_usd_m2",
      RMul(DEFAULTS.insaat_maliyet_usd_m2[base["konut_sinifi"].s], cm))

\* the parameters of one grid cell: lines 203-210
CellInputs(base, cm, sm) ==
  LET tmp == Put(base, "satis_birim_fiyat_usd_m2", RMul(base["satis_birim_fiyat_usd_m2"], sm))
  IN IF "insaat_maliyet_usd_m2" \in DOMAIN tmp /\ ~IsBlank(tmp["insaat_maliyet_usd_m2"])
     THEN Put(tmp, "insaat_maliyet_usd_m2", RMul(tmp["insaat_maliyet_usd_m2"], cm))
     ELSE Put(tmp, "insaat_maliyet_usd_m2",
              RMul(DEFAULTS.insaat_maliyet_usd_m2[tmp["konut_sinifi"].s], cm))

\* the dict appended to a row: lines 213-219, out being the cell's compute_outputs
Row(out, cm, sm) ==
  IF out.kind # "ok" THEN out
  ELSE [kind |-> "ok",
        sales_mult |-> sm,
        cost_mult |-> cm,
        profit_usd |-> out.outputs.proje_kari_usd,
        profit_try |-> out.outputs.proje_kari_try,
        gross_margin |-> out.outputs.brut_karlilik_orani]

Cell_SwappedAxes(base, rate, cm, sm) ==
  Row(compute_outputs(CellInputs(base, cm, sm), rate), sm, cm)

\* one grid cell: lines 202-219
Cell(base, rate, cm, sm) ==
  Row(compute_outputs(CellInputs(base, cm, sm), rate), cm, sm)

\* the inner loop of lines 201-219: the first j cells appended to one row
RECURSIVE RowCells(_, _, _, _)
RowCells(m, rate, cm, j) ==
  IF j = 0 THEN <<>>
  ELSE Append(RowCells(m, rate, cm, j - 1), Cell(m, rate, cm, sales_mults[j]))

\* the outer loop of lines 199-220: the first i rows appended to the grid
RECURSIVE GridRows(_, _, _)
GridRows(m, rate, i) ==
  IF i = 0 THEN <<>>
  ELSE Append(GridRows(m, rate, i - 1), RowCells(m, rate, cost_mults[i], Len(sales_mults)))

Grid(m, rate) == GridRows(m, rate, Len(cost_mults))

\* what sensitivity returns, base_out being line 190's compute_outputs and grid the
\* cells of the loops (the first cell that raises ends the call)
Table(m, base_out, grid) ==
  LET failed == {ij \in (1..Len(cost_mults)) \X (1..Len(sales_mults)) :
                   grid[ij[1]][ij[2]].kind # "ok"}
      firstFailed == CHOOSE ij \in failed : \A o \in failed :
                       ij[1] < o[1] \/ (ij[1] = o[1] /\ ij[2] <= o[2])
  IN IF base_out.kind # "ok" THEN base_out
     ELSE IF IsBlank(Get(m, "satis_birim_fiyat_usd_m2", None))
     THEN [kind |-> "ok", base |-> base_out.outputs, grid |-> <<>>,
           sales_mults |-> sales_mults, cost_mults |-> cost_mults]
     ELSE IF failed # {} THEN grid[firstFailed[1]][firstFailed[2]]
     ELSE [kind |-> "ok", base |-> base_out.outputs, grid |-> grid,
           sales_mults |-> sales_mults, cost_mults |-> cost_mults]

sensitivity(m, rate) == Table(m, compute_outputs(m, rate), Grid(m, rate))

(***************************************************************************)
(* app.py                                                                  *)
(***************************************************************************)
NoResult == [kind |-> "none"]

RateSet == {None, Whole(2)}

\* dict.setdefault(k, v)
SetDefault(m, k, v) == IF k \in DOMAIN m THEN m ELSE Put(m, k, v)

ensure_defaults_Overwrite(m) ==
  LET o1 == SetDefault(m, "satilabilir_katsayi", DEFAULTS.satilabilir_katsayi)
      o2 == SetDefault(o1, "ortalama_konut_m2", DEFAULTS.ortalama_konut_m2)
      o3 == IF Get(o2, "otopark_tipi", None) \in {Str(x) : x \in OtoparkTipi}
            THEN Put(o2, "otopark_katsayi", DEFAULTS.otopark_katsayi[o2["otopark_tipi"].s])
            ELSE o2
      o4 == IF Get(o3, "konut_sinifi", None) \in {Str(x) : x \in KonutSinifi}
            THEN Put(o3, "insaat_maliyet_usd_m2",
                     DEFAULTS.insaat_maliyet_usd_m2[o3["konut_sinifi"].s])
            ELSE o3
  IN o4

\* `if m.get(enum_key) in enum and key not in m: m[key] = table[m[enum_key]]`
DefaultFor(m, enum_key, enum, key, table) ==
  IF Get(m, enum_key, None) \in {Str(x) : x \in enum} /\ key \notin DOMAIN m
  THEN Put(m, key, table[m[enum_key].s])
  ELSE m

ensure_defaults_CostAfterCoefficient(m) ==
  LET o2 == SetDefault(SetDefault(m, "satilabilir_katsayi", DEFAULTS.satilabilir_katsayi),
                       "ortalama_konut_m2", DEFAULTS.ortalama_konut_m2)
      o3 == IF "otopark_katsayi" \in DOMAIN o2
            THEN DefaultFor(o2, "konut_sinifi", KonutSinifi, "insaat_maliyet_usd_m2",
                            DEFAULTS.insaat_maliyet_usd_m2)
            ELSE o2
  IN DefaultFor(o3, "otopark_tipi", OtoparkTipi, "otopark_katsayi", DEFAULTS.otopark_katsayi)

ensure_defaults(m) ==
  DefaultFor(
    DefaultFor(
      SetDefault(SetDefault(m, "satilabilir_katsayi", DEFAULTS.satilabilir_katsayi),
                 "ortalama_konut_m2", DEFAULTS.ortalama_konut_m2),
      "otopark_tipi", OtoparkTipi, "otopark_katsayi", DEFAULTS.otopark_katsayi),
    "konut_sinifi", KonutSinifi, "insaat_maliyet_usd_m2", DEFAULTS.insaat_maliyet_usd_m2)

merge_patch_Rederive(m, patch) ==
  LET stale == {k \in {"otopark_katsayi"} : "otopark_tipi" \in DOMAIN patch}
                 \cup {k \in {"insaat_maliyet_usd_m2"} : "konut_sinifi" \in DOMAIN patch}
  IN ensure_defaults([k \in ((DOMAIN m) \ stale) \cup DOMAIN patch |->
                        IF k \in DOMAIN patch THEN patch[k] ELSE m[k]])

merge_patch(m, patch) ==
  ensure_defaults([k \in DOMAIN m \cup DOMAIN patch |->
                     IF k \in DOMAIN patch THEN patch[k] ELSE m[k]])

compute_if_possible(m, rate) ==
  IF ~ \A i \in 1..Len(required) : required[i] \in DOMAIN m /\ ~IsBlank(m[required[i]])
  THEN NoResult
  ELSE compute_outputs(m, rate)

\* the caller's key (stable_user_key) and the DAILY_LIMIT of the deployment's secrets
UserKey == "u1"
DailyLimit == 2
MaxDay == 2

\* check_and_increment_quota: the store after the call, and what the call returns
QuotaStore(st, day, key) ==
  LET rolled == IF st.day # day THEN [day |-> day, counts |-> <<>>] ELSE st
      count == IF key \in DOMAIN rolled.counts THEN rolled.counts[key] ELSE 0
  IN IF count >= DailyLimit THEN rolled
     ELSE [rolled EXCEPT !.counts = Put(rolled.counts, key, count + 1)]

QuotaGranted(st, day, key) ==
  LET rolled == IF st.day # day THEN [day |-> day, counts |-> <<>>] ELSE st
      count == IF key \in DOMAIN rolled.counts THEN rolled.counts[key] ELSE 0
  IN count < DailyLimit

\* the sessions that share the usage store, and the key of each
\* (stable_user_key hashes the session's own session_fallback)
Sessions == {"s1", "s2"}
KeyOf(s) == IF s = "s1" THEN UserKey ELSE "u2"

\* no call of check_and_increment_quota is in progress
Idle == [pc |-> "idle", today |-> 0, count |-> 0]
NoCalls == [s \in Sessions |-> Idle]
NoneGranted == [k \in {KeyOf(s) : s \in Sessions} |-> [d \in 1..MaxDay |-> 0]]

\* the form widgets of lines 366-385 raise before the results panel is reached
FormRenderFails(m) ==
  \/ FloatErr(Get(m, "satilabilir_katsayi", One)) # ""
  \/ FloatErr(Get(m, "otopark_katsayi", One)) # ""
  \/ Get(m, "konut_sinifi", Str("ORTA")) \notin {Str(x) : x \in KonutSinifi}
  \/ FloatErr(Get(m, "insaat_maliyet_usd_m2", One)) # ""
  \/ FloatErr(Get(m, "ortalama_konut_m2", One)) # ""

\* `if x:` on an optional number
Truthy(v) == v.t = "num" /\ v.n # 0

\* the results panel of one script run: lines 407-470
ResultsPanel(m, rate) ==
  IF FormRenderFails(m) THEN [kind |-> "error", err |-> "form", field |-> ""]
  ELSE compute_if_possible(m, rate)

\* the sensitivity table of the results panel, r being what the panel computed
PanelSensitivity(m, rate, r) ==
  IF r.kind = "ok" /\ Truthy(r.outputs.satis_birim_fiyat_usd_m2)
  THEN sensitivity(m, rate)
  ELSE NoResult

TrackedKeys == {"otopark_katsayi", "insaat_maliyet_usd_m2"}

\* the patches the extraction returns
PatchSet ==
  {[arsa_alani_m2 |-> Whole(5000), emsal |-> Num(9, 5), arsa_toplam_degeri_usd |-> Whole(2000000)],
   [otopark_tipi |-> Str("KAPALI")],
   [konut_sinifi |-> Str("ORTA")],
   [otopark_tipi |-> Str("ACIK")],
   [konut_sinifi |-> Str("YUKSEK")],
   [konut_sinifi |-> Str("LUKS")],
   [otopark_katsayi |-> Num(3, 2)],
   [insaat_maliyet_usd_m2 |-> Whole(1000)],
   [insaat_maliyet_usd_m2 |-> None],
   [satis_birim_fiyat_usd_m2 |-> Whole(2200)]}

\* the values of the form widgets when the button is pressed
FormSet ==
  {[arsa_alani_m2 |-> Whole(5000), emsal |-> Num(9, 5), satilabilir_katsayi |-> Num(5, 4),
    otopark_tipi |-> Str("KAPALI"), otopark_katsayi |-> ok, konut_sinifi |-> Str("ORTA"),
    insaat_maliyet_usd_m2 |-> Whole(1000), arsa_toplam_degeri_usd |-> Whole(2000000),
    ortalama_konut_m2 |-> Whole(120), satis_birim_fiyat_usd_m2 |-> sp] :
     ok \in {Num(3, 2)}, sp \in {Whole(0), Whole(2200)}}

\* a session whose exchange rate was fetched
Init ==
  /\ inputs = ensure_defaults(<<>>)
  /\ usd_try_rate = Whole(2)
  /\ result = NoResult
  /\ panel = NoResult
  /\ sens = NoResult
  /\ reply = "none"
  /\ store = [day |-> 1, counts |-> <<>>]
  /\ today = 1
  /\ supplied = <<>>
  /\ op = "init"
  /\ calls = NoCalls
  /\ granted = NoneGranted

ChatMessage_CountsEveryMessage(patch) ==
  /\ inputs' = merge_patch(inputs, patch)
  /\ result' = compute_if_possible(inputs', usd_try_rate)
  /\ supplied' = [k \in DOMAIN supplied \cup (DOMAIN patch \cap TrackedKeys) |->
                    IF k \in DOMAIN patch THEN patch[k] ELSE supplied[k]]
  /\ op' = "chat"
  /\ IF result'.kind = "error"
     THEN /\ reply' = "exception"
          /\ UNCHANGED <<store, panel, sens>>
     ELSE /\ reply' = IF result'.kind = "none" THEN "ask"
                      ELSE IF QuotaGranted(store, today, UserKey) THEN "result" ELSE "limit"
          /\ store' = QuotaStore(store, today, UserKey)
          /\ panel' = ResultsPanel(inputs', usd_try_rate)
          /\ sens' = PanelSensitivity(inputs', usd_try_rate, panel')
  /\ UNCHANGED <<usd_try_rate, today, calls, granted>>

\* the chat handler (lines 283-344) and the script run that st.rerun() starts
ChatMessage(patch) ==
  /\ inputs' = merge_patch(inputs, patch)
  /\ result' = compute_if_possible(inputs', usd_try_rate)
  /\ supplied' = [k \in DOMAIN supplied \cup (DOMAIN patch \cap TrackedKeys) |->
                    IF k \in DOMAIN patch THEN patch[k] ELSE supplied[k]]
  /\ op' = "chat"
  /\ IF result'.kind = "error"
     THEN \* the exception ends the script run
          /\ reply' = "exception"
          /\ UNCHANGED <<store, panel, sens>>
     ELSE /\ reply' = IF result'.kind = "none" THEN "ask"
                      ELSE IF QuotaGranted(store, today, UserKey) THEN "result" ELSE "limit"
          /\ store' = IF result'.kind = "ok" THEN QuotaStore(store, today, UserKey) ELSE store
          /\ panel' = ResultsPanel(inputs', usd_try_rate)
          /\ sens' = PanelSensitivity(inputs', usd_try_rate, panel')
  /\ UNCHANGED <<usd_try_rate, today, calls, granted>>

\* the form button (lines 387-402) and the script run that st.rerun() starts
FormSubmit(form) ==
  /\ ~FormRenderFails(inputs)
  /\ inputs' = ensure_defaults([form EXCEPT !["satis_birim_fiyat_usd_m2"] =
                                  IF RLt(Zero, @) THEN @ ELSE None])
  /\ supplied' = [k \in TrackedKeys |-> form[k]]
  /\ store' = QuotaStore(store, today, UserKey)
  /\ panel' = ResultsPanel(inputs', usd_try_rate)
  /\ sens' = PanelSensitivity(inputs', usd_try_rate, panel')
  /\ op' = "form"
  /\ UNCHANGED <<usd_try_rate, result, reply, today, calls, granted>>

\* the calendar day changes
DayRollover ==
  /\ today < MaxDay
  /\ today' = today + 1
  /\ UNCHANGED <<inputs, usd_try_rate, result, panel, sens, reply, store, supplied, op, calls, granted>>

Next ==
  \/ \E patch \in PatchSet : ChatMessage(patch)
  \/ \E form \in FormSet : FormSubmit(form)
  \/ DayRollover

Spec == Init /\ [][Next]_vars

(***************************************************************************)
(* The engine as a function of its arguments: the arguments are drawn      *)
(* from scenarios that differ from a complete scenario in a bounded number *)
(* of keys, and the actions apply compute_outputs and sensitivity.         *)
(***************************************************************************)
MaxDeviations == 2

ParamKeys ==
  {"arsa_alani_m2", "emsal", "satilabilir_katsayi", "otopark_tipi", "otopark_katsayi",
   "konut_sinifi", "insaat_maliyet_usd_m2", "arsa_toplam_degeri_usd", "ortalama_konut_m2",
   "satis_birim_fiyat_usd_m2"}

\* marks a key that the mapping does not hold
Absent == Str("<absent>")

BaseScenario ==
  [k \in ParamKeys |->
     CASE k = "arsa_alani_m2" -> Whole(5000)
       [] k = "emsal" -> Num(9, 5)
       [] k = "otopark_tipi" -> Str("KAPALI")
       [] k = "konut_sinifi" -> Str("ORTA")
       [] k = "arsa_toplam_degeri_usd" -> Whole(2000000)
       [] OTHER -> Absent]

Alternatives ==
  [k \in ParamKeys |->
     CASE k = "arsa_alani_m2" -> {Absent, None, Str(""), Whole(0), Whole(1000)}
       [] k = "emsal" -> {Absent, None, Str(""), Whole(0), Whole(6), Whole(-1)}
       [] k = "satilabilir_katsayi" -> {Whole(0), Num(9, 10), Num(17, 10), None}
       [] k = "otopark_tipi" -> {Absent, None, Str(""), Str("ACIK"), Str("ZEMIN")}
       [] k = "otopark_katsayi" -> {Num(3, 2), Whole(0), None, Str("")}
       [] k = "konut_sinifi" -> {Absent, None, Str(""), Str("YUKSEK"), Str("LUKS")}
       [] k = "insaat_maliyet_usd_m2" -> {Whole(1000), Whole(0), None, Str("")}
       [] k = "arsa_toplam_degeri_usd" -> {Absent, None, Str(""), Whole(0), Whole(-1000)}
       [] k = "ortalama_konut_m2" -> {Whole(125), Whole(50), Whole(300), Whole(0), Whole(-10)}
       [] k = "satis_birim_fiyat_usd_m2" ->
            {None, Str(""), Whole(0), Whole(-5), Whole(1000), Num(16016, 9),
             Whole(1900), Num(5824, 3), Whole(2200)}]

\* the mapping that holds exactly the keys a choice marks present
AsMapping(choice) == [k \in {x \in ParamKeys : choice[x] # Absent} |-> choice[k]]

\* the choices that replace the base value of every key of D by an alternative
RECURSIVE Deviate(_, _)
Deviate(c, D) ==
  IF D = {} THEN {c}
  ELSE LET k == CHOOSE x \in D : TRUE
       IN UNION {Deviate([c EXCEPT ![k] = v], D \ {k}) : v \in Alternatives[k]}

ScenarioChoices ==
  UNION {Deviate(BaseScenario, D) :
           D \in {S \in SUBSET ParamKeys : Cardinality(S) <= MaxDeviations}}

SalePrices == {Whole(1700), Whole(2200)}

InitCompute ==
  /\ \E c \in ScenarioChoices : inputs = AsMapping(c)
  /\ usd_try_rate \in RateSet
  /\ result = NoResult
  /\ panel = NoResult
  /\ sens = NoResult
  /\ reply = "none"
  /\ store = [day |-> 1, counts |-> <<>>]
  /\ today = 1
  /\ supplied = <<>>
  /\ op = "init"
  /\ calls = NoCalls
  /\ granted = NoneGranted

\* a call of compute_outputs
Compute ==
  /\ op = "init"
  /\ result' = compute_outputs(inputs, usd_try_rate)
  /\ op' = "compute"
  /\ UNCHANGED <<inputs, usd_try_rate, panel, sens, reply, store, today, supplied, calls, granted>>

\* a call of sensitivity
Sensitivity ==
  /\ op = "init"
  /\ sens' = sensitivity(inputs, usd_try_rate)
  /\ op' = "sensitivity"
  /\ UNCHANGED <<inputs, usd_try_rate, result, panel, reply, store, today, supplied, calls, granted>>

\* a cost-only scenario gets a sale price and is computed again
Reprice ==
  /\ op = "compute"
  /\ IsBlank(Get(inputs, "satis_birim_fiyat_usd_m2", None))
  /\ \E s \in SalePrices :
       /\ inputs' = Put(inputs, "satis_birim_fiyat_usd_m2", s)
       /\ result' = compute_outputs(inputs', usd_try_rate)
  /\ op' = "reprice"
  /\ UNCHANGED <<usd_try_rate, panel, sens, reply, store, today, supplied, calls, granted>>

\* the returned break-even price becomes the sale price and the scenario is
\* computed again
RepriceAtBreakeven ==
  /\ op = "compute"
  /\ result.kind = "ok"
  /\ inputs' = Put(inputs, "satis_birim_fiyat_usd_m2", result.outputs.breakeven_usd_m2)
  /\ result' = compute_outputs(inputs', usd_try_rate)
  /\ op' = "breakeven"
  /\ UNCHANGED <<usd_try_rate, panel, sens, reply, store, today, supplied, calls, granted>>

\* a revenue-mode scenario gets a higher sale price and is computed again
RaisePrice ==
  /\ op \in {"compute", "reprice"}
  /\ result.kind = "ok"
  /\ result.outputs.proje_kari_usd # None
  /\ \E s \in SalePrices :
       /\ RLt(inputs["satis_birim_fiyat_usd_m2"], s)
       /\ inputs' = Put(inputs, "satis_birim_fiyat_usd_m2", s)
       /\ result' = compute_outputs(inputs', usd_try_rate)
  /\ op' = "raise"
  /\ UNCHANGED <<usd_try_rate, panel, sens, reply, store, today, supplied, calls, granted>>

\* keys that no part of the program reads
UnrecognisedKeys == {<<>>, [notlar |-> Str("deniz manzarali")]}

\* a call of ensure_defaults on a partial mapping; `out = dict(inputs)` copies, so
\* the caller's mapping is the one that was passed
Resolve ==
  /\ op = "init"
  /\ \E extra \in UnrecognisedKeys :
       inputs' = [k \in DOMAIN inputs \cup DOMAIN extra |->
                    IF k \in DOMAIN extra THEN extra[k] ELSE inputs[k]]
  /\ result' = [kind |-> "resolved", mapping |-> ensure_defaults(inputs')]
  /\ op' = "resolve"
  /\ UNCHANGED <<usd_try_rate, panel, sens, reply, store, today, supplied, calls, granted>>

\* ensure_defaults applied to its own output
ResolveAgain ==
  /\ op = "resolve"
  /\ result' = [kind |-> "resolved", mapping |-> ensure_defaults(result.mapping)]
  /\ op' = "resolve again"
  /\ UNCHANGED <<inputs, usd_try_rate, panel, sens, reply, store, today, supplied, calls, granted>>

NextCompute ==
  \/ Compute
  \/ Sensitivity
  \/ Reprice
  \/ RepriceAtBreakeven
  \/ RaisePrice
  \/ Resolve
  \/ ResolveAgain

SpecCompute == InitCompute /\ [][NextCompute]_vars

(***************************************************************************)
(* check_and_increment_quota statement by statement: every session runs    *)
(* its script in a thread of its own, and usage_store() hands all of them  *)
(* the one dictionary of the process.                                      *)
(***************************************************************************)
InitQuota ==
  /\ inputs = ensure_defaults(<<>>)
  /\ usd_try_rate = None
  /\ result = NoResult
  /\ panel = NoResult
  /\ sens = NoResult
  /\ reply = "none"
  /\ store = [day |-> 1, counts |-> <<>>]
  /\ today = 1
  /\ supplied = <<>>
  /\ op = "init"
  /\ calls = NoCalls
  /\ granted = NoneGranted

\* lines 60-61: store = usage_store(); today = date.today().isoformat()
QuotaCall(s) ==
  /\ calls[s].pc = "idle"
  /\ calls' = [calls EXCEPT ![s] = [pc |-> "check", today |-> today, count |-> 0]]
  /\ UNCHANGED <<store, granted>>

\* line 62: if store["day"] != today
QuotaCheckDay(s) ==
  /\ calls[s].pc = "check"
  /\ calls' = [calls EXCEPT ![s].pc = IF store.day # calls[s].today THEN "setday" ELSE "read"]
  /\ UNCHANGED <<store, granted>>

\* line 63: store["day"] = today
QuotaSetDay(s) ==
  /\ calls[s].pc = "setday"
  /\ store' = [store EXCEPT !.day = calls[s].today]
  /\ calls' = [calls EXCEPT ![s].pc = "reset"]
  /\ UNCHANGED granted

\* line 64: store["counts"] = {}
QuotaReset(s) ==
  /\ calls[s].pc = "reset"
  /\ store' = [store EXCEPT !.counts = <<>>]
  /\ calls' = [calls EXCEPT ![s].pc = "read"]
  /\ UNCHANGED granted

\* lines 65-67: count = store["counts"].get(key, 0)
QuotaRead(s) ==
  /\ calls[s].pc = "read"
  /\ calls' = [calls EXCEPT ![s].pc = "test",
                            ![s].count = Get(store.counts, KeyOf(s), 0)]
  /\ UNCHANGED <<store, granted>>

\* lines 68-69: if count >= limit: return False
QuotaTest(s) ==
  /\ calls[s].pc = "test"
  /\ calls' = [calls EXCEPT ![s] = IF calls[s].count >= DailyLimit THEN Idle
                                   ELSE [@ EXCEPT !.pc = "write"]]
  /\ UNCHANGED <<store, granted>>

\* lines 70-71: store["counts"][key] = count + 1; return True. The history
\* counts a call under a day only if it began and returned on that day.
QuotaWrite(s) ==
  /\ calls[s].pc = "write"
  /\ store' = [store EXCEPT !.counts = Put(store.counts, KeyOf(s), calls[s].count + 1)]
  /\ granted' = IF calls[s].today = today
                THEN [granted EXCEPT ![KeyOf(s)][today] = @ + 1]
                ELSE granted
  /\ calls' = [calls EXCEPT ![s] = Idle]

QuotaStep(s) ==
  /\ \/ QuotaCall(s)
     \/ QuotaCheckDay(s)
     \/ QuotaSetDay(s)
     \/ QuotaReset(s)
     \/ QuotaRead(s)
     \/ QuotaTest(s)
     \/ QuotaWrite(s)
  /\ UNCHANGED <<inputs, usd_try_rate, result, panel, sens, reply, today, supplied, op>>

NextQuota ==
  \/ \E s \in Sessions : QuotaStep(s)
  \/ DayRollover

SpecQuota == InitQuota /\ [][NextQuota]_vars

(***************************************************************************)
(* Properties                                                              *)
(***************************************************************************)
\* result holds what compute_outputs returned for the current inputs
Computed == op \in {"compute", "reprice", "breakeven", "raise"}

MandatoryFields ==
  {"arsa_alani_m2", "emsal", "otopark_tipi", "konut_sinifi", "arsa_toplam_degeri_usd"}

MissingMandatory ==
  {k \in MandatoryFields : k \notin DOMAIN inputs \/ inputs[k] = None \/ inputs[k] = Str("")}

\* C1: compute_outputs fails with the error "Eksik alan: <field>", naming a
\* mandatory field that is absent, None or "", whenever there is such a field,
\* and then returns no outputs; when no mandatory field is missing the error is
\* not raised, whatever the sale price is (absent included).
C1_MissingField ==
  Computed =>
    /\ MissingMandatory # {} =>
         /\ result.kind = "error"
         /\ result.err = "Eksik alan"
         /\ result.field \in MissingMandatory
         /\ "outputs" \notin DOMAIN result
    /\ MissingMandatory = {} => ~(result.kind = "error" /\ result.err = "Eksik alan")

C1_Witness ==
  /\ Computed
  /\ "satis_birim_fiyat_usd_m2" \notin DOMAIN inputs
  /\ "konut_sinifi" \in DOMAIN inputs /\ inputs["konut_sinifi"] = Str("")
  /\ result.kind = "error" /\ result.field = "konut_sinifi"

RevenueFields == {"proje_hasilati_usd", "proje_kari_usd", "brut_karlilik_orani"}
RevenueMirrors == {"proje_hasilati_try", "proje_kari_try"}
PriceEcho == {"satis_birim_fiyat_usd_m2", "satis_birim_fiyat_try_m2"}

\* C2 as stated: with the sale price absent the revenue, profit and margin
\* outputs are null; a positive sale price populates exactly those fields and
\* their currency mirrors and leaves every other output unchanged.
C2_Original ==
  [][(op' = "reprice" /\ result.kind = "ok") =>
       /\ result'.kind = "ok"
       /\ \A f \in RevenueFields \cup RevenueMirrors : result.outputs[f] = None
       /\ \A f \in RevenueFields : result'.outputs[f] # None
       /\ \A f \in OutputFields \ (RevenueFields \cup RevenueMirrors) :
            result'.outputs[f] = result.outputs[f]]_vars

\* C2 amended: with the sale price absent the revenue, profit and margin
\* outputs and their mirrors are null; a positive sale price populates those
\* three fields (their mirrors exactly when a rate is supplied), also sets the
\* echoed sale price satis_birim_fiyat_usd_m2 (and its mirror), and leaves
\* every other output unchanged.
C2_ModeSwitch ==
  [][(op' = "reprice" /\ result.kind = "ok") =>
       /\ result'.kind = "ok"
       /\ \A f \in RevenueFields \cup RevenueMirrors : result.outputs[f] = None
       /\ \A f \in RevenueFields : result'.outputs[f] # None
       /\ \A f \in RevenueMirrors : (result'.outputs[f] # None) <=> (usd_try_rate # None)
       /\ result.outputs.satis_birim_fiyat_usd_m2 = None
       /\ result'.outputs.satis_birim_fiyat_usd_m2 = inputs'["satis_birim_fiyat_usd_m2"]
       /\ (result'.outputs.satis_birim_fiyat_try_m2 # None) <=> (usd_try_rate # None)
       /\ \A f \in OutputFields \ (RevenueFields \cup RevenueMirrors \cup PriceEcho) :
            result'.outputs[f] = result.outputs[f]]_vars

C2_Witness ==
  /\ op = "reprice"
  /\ result.kind = "ok"
  /\ result.outputs.proje_kari_usd # None
  /\ result.outputs.proje_kari_try # None

\* the result that belongs to the session's current inputs
Shown == IF op = "form" THEN panel ELSE result

\* C3: in a session, an explicitly supplied otopark_katsayi or
\* insaat_maliyet_usd_m2 (patch or form) is the stored value until the key is
\* supplied again, and the outputs computed for the session are derived from
\* it, not from the default of the type or class.
C3_ExplicitKept ==
  /\ \A k \in DOMAIN supplied : k \in DOMAIN inputs /\ inputs[k] = supplied[k]
  /\ Shown.kind = "ok" =>
       /\ "otopark_katsayi" \in DOMAIN supplied =>
            Shown.outputs.toplam_insaat_alani_m2 =
              RMul(Shown.outputs.satilabilir_alan_m2, supplied["otopark_katsayi"])
       /\ "insaat_maliyet_usd_m2" \in DOMAIN supplied =>
            Shown.outputs.insaat_maliyeti_usd =
              RMul(Shown.outputs.toplam_insaat_alani_m2, supplied["insaat_maliyet_usd_m2"])

C3_Witness ==
  /\ op = "chat"
  /\ result.kind = "ok"
  /\ DOMAIN supplied = TrackedKeys
  /\ supplied["otopark_katsayi"] = Num(3, 2)
  /\ supplied["insaat_maliyet_usd_m2"] = Whole(1000)
  /\ inputs["otopark_tipi"] = Str("KAPALI")
  /\ inputs["konut_sinifi"] = Str("YUKSEK")
  /\ result.outputs.insaat_maliyeti_usd = Whole(16875000)

TryPairs ==
  {<<"insaat_maliyeti_try", "insaat_maliyeti_usd">>,
   <<"arsa_degeri_try", "arsa_degeri_usd">>,
   <<"toplam_proje_maliyeti_try", "toplam_proje_maliyeti_usd">>,
   <<"breakeven_try_m2", "breakeven_usd_m2">>,
   <<"target_10_try_m2", "target_10_usd_m2">>,
   <<"target_30_try_m2", "target_30_usd_m2">>,
   <<"target_50_try_m2", "target_50_usd_m2">>,
   <<"satis_birim_fiyat_try_m2", "satis_birim_fiyat_usd_m2">>,
   <<"proje_hasilati_try", "proje_hasilati_usd">>,
   <<"proje_kari_try", "proje_kari_usd">>}

\* C4: in the outputs of compute_outputs every *_try field is its *_usd
\* counterpart times the rate when a rate is supplied (null where the
\* counterpart is null), and null when no rate is supplied.
C4_CurrencyMirror ==
  (Computed /\ result.kind = "ok") =>
    \A pr \in TryPairs :
      LET try == result.outputs[pr[1]]
          usd == result.outputs[pr[2]]
      IN IF usd_try_rate = None \/ usd = None THEN try = None
         ELSE try = RMul(usd, usd_try_rate)

C4_Witness ==
  /\ Computed
  /\ result.kind = "ok"
  /\ usd_try_rate = Whole(2)
  /\ result.outputs.proje_kari_usd = Whole(6550000)
  /\ result.outputs.proje_kari_try = Whole(13100000)

\* the scenario of C5: 5000 m2, emsal 1.8, coefficient 1.25, KAPALI (1.60),
\* ORTA (900), land value 2,000,000, average unit 120, no sale price
ConcreteScenario ==
  /\ MissingMandatory = {}
  /\ inputs["arsa_alani_m2"] = Whole(5000)
  /\ inputs["emsal"] = Num(9, 5)
  /\ inputs["otopark_tipi"] = Str("KAPALI")
  /\ inputs["konut_sinifi"] = Str("ORTA")
  /\ inputs["arsa_toplam_degeri_usd"] = Whole(2000000)
  /\ Get(inputs, "satilabilir_katsayi", Num(5, 4)) = Num(5, 4)
  /\ Get(inputs, "otopark_katsayi", Num(8, 5)) = Num(8, 5)
  /\ Get(inputs, "insaat_maliyet_usd_m2", Whole(900)) = Whole(900)
  /\ Get(inputs, "ortalama_konut_m2", Whole(120)) = Whole(120)
  /\ Get(inputs, "satis_birim_fiyat_usd_m2", None) \in {None, Str("")}

\* x rounded to two decimals is cents / 100
RoundsTo(x, cents) ==
  /\ (2 * cents - 1) * x.d <= 200 * x.n
  /\ 200 * x.n < (2 * cents + 1) * x.d

\* the outputs of the concrete scenario, the leftover area being left open
ConcreteOutputs(leftover) ==
  /\ result.kind = "ok"
  /\ result.outputs.emsal_insaat_alani_m2 = Whole(9000)
  /\ result.outputs.satilabilir_alan_m2 = Whole(11250)
  /\ result.outputs.toplam_insaat_alani_m2 = Whole(18000)
  /\ result.outputs.insaat_maliyeti_usd = Whole(16200000)
  /\ result.outputs.toplam_proje_maliyeti_usd = Whole(18200000)
  /\ result.outputs.yaklasik_konut_adedi = Whole(93)
  /\ result.outputs.kalan_satilabilir_alan_m2 = Whole(leftover)
  /\ result.outputs.breakeven_usd_m2 = Num(14560, 9)
  /\ RoundsTo(result.outputs.breakeven_usd_m2, 161778)
  /\ RoundsTo(result.outputs.target_10_usd_m2, 177956)
  /\ RoundsTo(result.outputs.target_30_usd_m2, 210311)
  /\ RoundsTo(result.outputs.target_50_usd_m2, 242667)
  /\ \A f \in RevenueFields \cup RevenueMirrors : result.outputs[f] = None

\* C5 as stated: the concrete scenario yields 9000 / 11250 / 18000 /
\* 16,200,000 / 18,200,000, 93 units, leftover 30, break-even 1617.78, targets
\* 1779.56 / 2103.11 / 2426.67 and null revenue fields.
C5_Original == (Computed /\ ConcreteScenario) => ConcreteOutputs(30)

\* C5 amended: the same outputs with a leftover sellable area of 90
\* (11250 - 93 * 120), not 30.
C5_ConcreteScenario == (Computed /\ ConcreteScenario) => ConcreteOutputs(90)

C5_Witness ==
  /\ Computed
  /\ ConcreteScenario
  /\ "satilabilir_katsayi" \notin DOMAIN inputs
  /\ result.kind = "ok"
  /\ result.outputs.yaklasik_konut_adedi = Whole(93)

\* C6: the unit count is floor(sellable / average) when the average unit and
\* the quotient are positive and 0 otherwise; the leftover is the sellable
\* area minus count * average (the whole sellable area when the count is 0);
\* count * average + leftover = sellable, and 0 <= leftover < average when
\* average > 0 and sellable >= 0.
C6_UnitCount ==
  (Computed /\ result.kind = "ok") =>
    LET s == result.outputs.satilabilir_alan_m2
        a == Get(inputs, "ortalama_konut_m2", Whole(120))
        kq == result.outputs.yaklasik_konut_adedi
        k == kq.n
        l == result.outputs.kalan_satilabilir_alan_m2
    IN /\ kq.d = 1 /\ k >= 0
       /\ IF RLt(Zero, a) /\ RLt(Zero, s)
          THEN RLe(RMul(Whole(k), a), s) /\ RLt(s, RMul(Whole(k + 1), a))
          ELSE k = 0
       /\ l = IF k = 0 THEN s ELSE RSub(s, RMul(Whole(k), a))
       /\ RAdd(RMul(Whole(k), a), l) = s
       /\ (RLt(Zero, a) /\ RLe(Zero, s)) => (RLe(Zero, l) /\ RLt(l, a))

C6_Witness ==
  /\ Computed
  /\ result.kind = "ok"
  /\ Get(inputs, "ortalama_konut_m2", Whole(120)) = Whole(50)
  /\ Get(inputs, "satilabilir_katsayi", Num(5, 4)) = Num(17, 10)
  /\ result.outputs.yaklasik_konut_adedi = Whole(306)
  /\ result.outputs.kalan_satilabilir_alan_m2 = Zero

Multipliers == <<Num(9, 10), Whole(1), Num(11, 10)>>

ClassCost(c) == IF c = "ALT" THEN Whole(700) ELSE IF c = "ORTA" THEN Whole(900) ELSE Whole(1100)

\* the construction cost the engine resolves for the current inputs
ResolvedCost ==
  IF "insaat_maliyet_usd_m2" \in DOMAIN inputs THEN inputs["insaat_maliyet_usd_m2"]
  ELSE ClassCost(inputs["konut_sinifi"].s)

RevenueModeInputs ==
  /\ "satis_birim_fiyat_usd_m2" \in DOMAIN inputs
  /\ inputs["satis_birim_fiyat_usd_m2"].t = "num"
  /\ inputs["satis_birim_fiyat_usd_m2"].n > 0

\* the current inputs with the sale price times sm and the resolved cost times cm
Perturbed(cm, sm) ==
  [k \in DOMAIN inputs \cup {"insaat_maliyet_usd_m2"} |->
     IF k = "satis_birim_fiyat_usd_m2" THEN RMul(inputs[k], sm)
     ELSE IF k = "insaat_maliyet_usd_m2" THEN RMul(ResolvedCost, cm)
     ELSE inputs[k]]

\* C7: in revenue mode every cell (cm, sm) of the sensitivity grid holds the
\* profit and gross margin compute_outputs returns for the original
\* parameters with the sale price times sm and the resolved construction cost
\* times cm, the multiplier being applied once: profit = sellable * price * sm
\* - (gross area * cost * cm + land value); the centre cell equals the base
\* case.
C7_GridCells ==
  (op = "sensitivity" /\ sens.kind = "ok" /\ RevenueModeInputs) =>
    /\ Len(sens.grid) = 3
    /\ \A i \in 1..3 : \A j \in 1..3 :
         LET cell == sens.grid[i][j]
             r == compute_outputs(Perturbed(Multipliers[i], Multipliers[j]), usd_try_rate)
             revenue == RMul(sens.base.satilabilir_alan_m2,
                             RMul(inputs["satis_birim_fiyat_usd_m2"], Multipliers[j]))
             cost == RAdd(RMul(sens.base.toplam_insaat_alani_m2,
                               RMul(ResolvedCost, Multipliers[i])),
                          sens.base.arsa_degeri_usd)
         IN /\ r.kind = "ok"
            /\ cell.profit_usd = r.outputs.proje_kari_usd
            /\ cell.gross_margin = r.outputs.brut_karlilik_orani
            /\ cell.profit_usd = RSub(revenue, cost)
    /\ sens.grid[2][2].profit_usd = compute_outputs(inputs, usd_try_rate).outputs.proje_kari_usd
    /\ sens.grid[2][2].gross_margin =
         compute_outputs(inputs, usd_try_rate).outputs.brut_karlilik_orani

C7_Witness ==
  /\ op = "sensitivity"
  /\ sens.kind = "ok"
  /\ RevenueModeInputs
  /\ "insaat_maliyet_usd_m2" \in DOMAIN inputs
  /\ inputs["insaat_maliyet_usd_m2"] = Whole(1000)
  /\ sens.grid[1][3].profit_usd # sens.grid[2][2].profit_usd
  /\ sens.grid[2][2].profit_usd = sens.base.proje_kari_usd

\* C8: when compute_outputs succeeds on the parameters, sensitivity returns
\* its outputs as 'base'; the grid is empty when the sale price is absent,
\* None or "", and otherwise has 3 rows of 3 cells over {0.9, 1.0, 1.1}, row i
\* carrying cost multiplier i and column j sale multiplier j.
C8_GridShape ==
  (op = "sensitivity" /\ compute_outputs(inputs, usd_try_rate).kind = "ok") =>
    /\ sens.kind = "ok"
    /\ sens.base = compute_outputs(inputs, usd_try_rate).outputs
    /\ IF \/ "satis_birim_fiyat_usd_m2" \notin DOMAIN inputs
          \/ inputs["satis_birim_fiyat_usd_m2"] \in {None, Str("")}
       THEN sens.grid = <<>>
       ELSE /\ Len(sens.grid) = 3
            /\ \A i \in 1..3 :
                 /\ Len(sens.grid[i]) = 3
                 /\ \A j \in 1..3 :
                      /\ sens.grid[i][j].cost_mult = Multipliers[i]
                      /\ sens.grid[i][j].sales_mult = Multipliers[j]

C8_Witness ==
  /\ op = "sensitivity"
  /\ sens.kind = "ok"
  /\ Len(sens.grid) = 3
  /\ sens.grid[1][3].cost_mult = Num(9, 10)
  /\ sens.grid[1][3].sales_mult = Num(11, 10)
  /\ sens.grid[1][3].profit_usd # None

\* the fixed order of the warnings
WarningOrder ==
  <<"emsal<=0", "arsa<=0", "satilabilir_katsayi<=0", "otopark_katsayi<=0", "arsa_degeri<0",
    "insaat_maliyeti<=0", "emsal>5", "satilabilir_katsayi aralik", "ortalama_konut aralik",
    "kur yok", "zarar", "karlilik dusuk", "karlilik orta">>

FlagWarnings == {"zarar", "karlilik dusuk", "karlilik orta"}

Rank(w) == CHOOSE i \in 1..Len(WarningOrder) : WarningOrder[i] = w

\* the flag the thresholds give for the margin gm
ExpectedFlag(gm) ==
  IF gm.n < 0 THEN {"zarar"}
  ELSE IF 10 * gm.n < gm.d THEN {"karlilik dusuk"}
  ELSE IF 5 * gm.n < gm.d THEN {"karlilik orta"}
  ELSE {}

\* the checks whose condition holds for the current inputs
DueWarnings ==
  LET emsal == inputs["emsal"]
      arsa == inputs["arsa_alani_m2"]
      sk == Get(inputs, "satilabilir_katsayi", Num(5, 4))
      ok == Get(inputs, "otopark_katsayi",
                IF inputs["otopark_tipi"] = Str("ACIK") THEN Num(6, 5) ELSE Num(8, 5))
      land == inputs["arsa_toplam_degeri_usd"]
      ort == Get(inputs, "ortalama_konut_m2", Whole(120))
      gm == result.outputs.brut_karlilik_orani
  IN {w \in {"emsal<=0"} : emsal.n <= 0}
     \cup {w \in {"arsa<=0"} : arsa.n <= 0}
     \cup {w \in {"satilabilir_katsayi<=0"} : sk.n <= 0}
     \cup {w \in {"otopark_katsayi<=0"} : ok.n <= 0}
     \cup {w \in {"arsa_degeri<0"} : land.n < 0}
     \cup {w \in {"insaat_maliyeti<=0"} : ResolvedCost.n <= 0}
     \cup {w \in {"emsal>5"} : emsal.n > 5 * emsal.d}
     \cup {w \in {"satilabilir_katsayi aralik"} : sk.n < sk.d \/ 5 * sk.n > 8 * sk.d}
     \cup {w \in {"ortalama_konut aralik"} : ort.n < 60 * ort.d \/ ort.n > 250 * ort.d}
     \cup {w \in {"kur yok"} : usd_try_rate = None}
     \cup (IF gm = None THEN {} ELSE ExpectedFlag(gm))

\* every parameter is present where it must be and holds a value of its type
WellTyped ==
  /\ MissingMandatory = {}
  /\ \A k \in DOMAIN inputs :
       IF k = "otopark_tipi" THEN inputs[k] \in {Str("ACIK"), Str("KAPALI")}
       ELSE IF k = "konut_sinifi" THEN inputs[k] \in {Str("ALT"), Str("ORTA"), Str("YUKSEK")}
       ELSE IF k = "satis_birim_fiyat_usd_m2" THEN inputs[k].t = "num" \/ inputs[k] \in {None, Str("")}
       ELSE inputs[k].t = "num"

\* C9: the warnings of compute_outputs follow one fixed order (six sanity
\* warnings, four plausibility hints, at most one profitability flag), every
\* check whose condition holds contributes its warning, and a well-typed
\* scenario gets its outputs whatever warnings it raises.
C9_WarningOrder ==
  Computed =>
    /\ WellTyped => result.kind = "ok"
    /\ result.kind = "ok" =>
         LET w == result.warnings
         IN /\ \A i \in 1..Len(w) : \A j \in 1..Len(w) : i < j => Rank(w[i]) < Rank(w[j])
            /\ {w[i] : i \in 1..Len(w)} = DueWarnings
            /\ Cardinality({i \in 1..Len(w) : w[i] \in FlagWarnings}) <= 1

C9_Witness ==
  /\ Computed
  /\ result.kind = "ok"
  /\ Len(result.warnings) = 4
  /\ result.warnings[1] = "emsal<=0"
  /\ result.warnings[2] = "ortalama_konut aralik"
  /\ result.warnings[3] = "kur yok"
  /\ result.warnings[4] = "zarar"

\* C10: a profitability flag is emitted only in revenue mode (sale price
\* present and > 0), and then by the cost-based gross margin (profit / total
\* cost, 0 when the total cost is not positive): < 0 loss, [0, 0.10) low,
\* [0.10, 0.20) mid-range, >= 0.20 none; in cost-only mode there is no flag.
C10_ProfitabilityFlag ==
  (Computed /\ result.kind = "ok") =>
    LET out == result.outputs
        flags == {result.warnings[i] : i \in 1..Len(result.warnings)} \cap FlagWarnings
        gm == out.brut_karlilik_orani
        total == out.toplam_proje_maliyeti_usd
        profit == RSub(RMul(out.satilabilir_alan_m2, inputs["satis_birim_fiyat_usd_m2"]), total)
    IN IF ~RevenueModeInputs THEN gm = None /\ flags = {}
       ELSE /\ gm # None
            /\ gm = IF total.n > 0 THEN RDiv(profit, total) ELSE Zero
            /\ flags = ExpectedFlag(gm)

C10_Witness ==
  /\ Computed
  /\ result.kind = "ok"
  /\ result.outputs.brut_karlilik_orani = Num(1, 10)
  /\ result.warnings = <<"kur yok", "karlilik orta">>

\* C11 as stated: whenever compute_outputs succeeds, recomputing with the sale
\* price set to the returned break-even price gives a profit of 0, the revenue
\* being the total project cost.
C11_Original ==
  op = "breakeven" =>
    /\ result.kind = "ok"
    /\ result.outputs.proje_kari_usd = Zero
    /\ result.outputs.proje_hasilati_usd = result.outputs.toplam_proje_maliyeti_usd

\* C11 amended: when the returned break-even price is positive, recomputing
\* with the sale price set to it gives a profit of 0 and a revenue equal to the
\* total project cost; when it is not positive (sellable area <= 0 or total
\* cost <= 0) the recomputation is cost-only and the profit is null.
C11_BreakevenIdentity ==
  op = "breakeven" =>
    /\ result.kind = "ok"
    /\ inputs["satis_birim_fiyat_usd_m2"] = result.outputs.breakeven_usd_m2
    /\ IF RLt(Zero, result.outputs.breakeven_usd_m2)
       THEN /\ result.outputs.proje_kari_usd = Zero
            /\ result.outputs.proje_hasilati_usd = result.outputs.toplam_proje_maliyeti_usd
            /\ result.outputs.brut_karlilik_orani = Zero
       ELSE /\ result.outputs.proje_kari_usd = None
            /\ result.outputs.proje_hasilati_usd = None
            /\ \/ RLe(result.outputs.satilabilir_alan_m2, Zero)
               \/ RLe(result.outputs.toplam_proje_maliyeti_usd, Zero)

C11_Witness ==
  /\ op = "breakeven"
  /\ result.kind = "ok"
  /\ inputs["satis_birim_fiyat_usd_m2"] = Num(14560, 9)
  /\ result.outputs.proje_hasilati_usd = Whole(18200000)
  /\ result.outputs.proje_kari_usd = Zero

\* a/b < c/d for positive b and d, by whole parts and then by the inverted
\* remainders, so that no product of numerators and denominators is formed
RECURSIVE FracLess(_, _, _, _)
FracLess(a, b, c, d) ==
  IF a \div b # c \div d THEN a \div b < c \div d
  ELSE IF c % d = 0 THEN FALSE
  ELSE IF a % b = 0 THEN TRUE
  ELSE FracLess(d, c % d, b, a % b)

RLess(x, y) == FracLess(x.n, x.d, y.n, y.d)

\* C12 as stated: of two positive sale prices on otherwise identical accepted
\* parameters, the higher gives a strictly greater profit and a strictly
\* greater gross margin.
C12_Original ==
  [][op' = "raise" =>
       /\ result'.kind = "ok"
       /\ RLess(result.outputs.proje_kari_usd, result'.outputs.proje_kari_usd)
       /\ RLess(result.outputs.brut_karlilik_orani, result'.outputs.brut_karlilik_orani)]_vars

\* C12 amended: of two positive sale prices on otherwise identical accepted
\* parameters, the higher gives a strictly greater profit when the sellable
\* area is positive, and a strictly greater gross margin when moreover the
\* total project cost is positive.
C12_Monotonic ==
  [][op' = "raise" =>
       /\ result'.kind = "ok"
       /\ RLt(Zero, inputs["satis_birim_fiyat_usd_m2"])
       /\ RLt(inputs["satis_birim_fiyat_usd_m2"], inputs'["satis_birim_fiyat_usd_m2"])
       /\ \A k \in DOMAIN inputs \ {"satis_birim_fiyat_usd_m2"} : inputs'[k] = inputs[k]
       /\ RLt(Zero, result.outputs.satilabilir_alan_m2) =>
            RLess(result.outputs.proje_kari_usd, result'.outputs.proje_kari_usd)
       /\ (RLt(Zero, result.outputs.satilabilir_alan_m2)
           /\ RLt(Zero, result.outputs.toplam_proje_maliyeti_usd)) =>
            RLess(result.outputs.brut_karlilik_orani, result'.outputs.brut_karlilik_orani)]_vars

C12_Witness ==
  /\ op = "raise"
  /\ result.kind = "ok"
  /\ inputs["satis_birim_fiyat_usd_m2"] = Whole(2200)
  /\ result.outputs.proje_kari_usd = Whole(6550000)
  /\ result.outputs.brut_karlilik_orani = Num(131, 364)

\* C13: ensure_defaults is idempotent and pure: applied to its own output it
\* returns that output, the mapping it was given stays as it was, and every key
\* of that mapping, unrecognised keys and unrecognised enum values included,
\* is in the result with the value it had; the only keys added are the four
\* default keys.
DefaultKeys ==
  {"satilabilir_katsayi", "ortalama_konut_m2", "otopark_katsayi", "insaat_maliyet_usd_m2"}

C13_ResolveIdempotent ==
  [][/\ op' = "resolve" =>
          /\ \A k \in DOMAIN inputs' : k \in DOMAIN result'.mapping
                                       /\ result'.mapping[k] = inputs'[k]
          /\ DOMAIN result'.mapping \ DOMAIN inputs' \subseteq DefaultKeys
          /\ \A k \in DOMAIN inputs : inputs'[k] = inputs[k]
     /\ op' = "resolve again" =>
          /\ result'.mapping = result.mapping
          /\ inputs' = inputs]_vars

C13_Witness ==
  /\ op = "resolve again"
  /\ "notlar" \in DOMAIN inputs
  /\ "otopark_katsayi" \notin DOMAIN inputs
  /\ Get(inputs, "otopark_tipi", None) = Str("ACIK")
  /\ Get(inputs, "konut_sinifi", None) = Str("LUKS")
  /\ result.mapping["notlar"] = Str("deniz manzarali")
  /\ result.mapping["otopark_katsayi"] = Num(6, 5)
  /\ result.mapping["konut_sinifi"] = Str("LUKS")
  /\ "insaat_maliyet_usd_m2" \notin DOMAIN result.mapping

\* C14: when otopark_tipi or konut_sinifi holds a non-empty value outside its
\* enum, ensure_defaults adds no default for the dependent coefficient or cost,
\* and compute_outputs fails as it does for a missing field: the error is
\* "Eksik alan" and names a coefficient or cost field that could not be derived.
InvalidEnum(k, enum) ==
  /\ k \in DOMAIN inputs
  /\ ~IsBlank(inputs[k])
  /\ inputs[k] \notin {Str(x) : x \in enum}

Underivable ==
  {k \in {"otopark_katsayi"} : InvalidEnum("otopark_tipi", OtoparkTipi)}
    \cup {k \in {"insaat_maliyet_usd_m2"} : InvalidEnum("konut_sinifi", KonutSinifi)}

C14_InvalidEnum ==
  (op = "compute" /\ MissingMandatory = {} /\ Underivable # {}) =>
    /\ \A k \in Underivable \ DOMAIN inputs : k \notin DOMAIN ensure_defaults(inputs)
    /\ result.kind = "error"
    /\ result.err = "Eksik alan"
    /\ result.field \in Underivable

\* the caller's usage count of the current day
UsageCount ==
  IF store.day # today \/ UserKey \notin DOMAIN store.counts THEN 0 ELSE store.counts[UserKey]

\* C15: in a session, a step raises the caller's usage count only if its
\* compute succeeded and its result is presented (the chat reply with the
\* figures, or the results panel after a form submission), and a chat message
\* that yields no result leaves the usage store as it was.
C15_CountedResult ==
  [][/\ UsageCount' > UsageCount =>
          \/ op' = "chat" /\ result'.kind = "ok" /\ reply' = "result" /\ panel'.kind = "ok"
          \/ op' = "form" /\ panel'.kind = "ok"
     /\ (today' = today /\ op' = "chat" /\ result'.kind # "ok") => store' = store]_vars

C15_Witness ==
  /\ op = "chat"
  /\ reply = "exception"
  /\ result.kind = "error"
  /\ UsageCount = 1
  /\ store.day = today
  /\ panel.kind = "ok"

\* the script run of the last step called compute_outputs: in the chat handler
\* (a complete scenario) or in the results panel
EngineInvoked == (op = "chat" /\ result.kind # "none") \/ panel.kind = "ok"

\* C16: in a session, every step that invokes compute_outputs (or sensitivity)
\* is a step for which check_and_increment_quota granted permission, so that
\* at the daily limit no step computes or shows anything until the day rolls
\* over.
C16_GatedCompute ==
  [][(today' = today /\ EngineInvoked') => UsageCount' = UsageCount + 1]_vars

\* C17: for every caller key and every day, at most DailyLimit calls of
\* check_and_increment_quota return True and the stored count of a key never
\* exceeds DailyLimit, under every interleaving of the calls of sessions that
\* share the usage store, the day rollover included.
C17_QuotaCeiling ==
  /\ \A s \in Sessions : \A d \in 1..MaxDay : granted[KeyOf(s)][d] <= DailyLimit
  /\ \A k \in DOMAIN store.counts : store.counts[k] <= DailyLimit

\* the completeness check of compute_if_possible passes and both enums are
\* recognised
CompleteScenario ==
  /\ MissingMandatory = {}
  /\ inputs["otopark_tipi"] \in {Str(x) : x \in OtoparkTipi}
  /\ inputs["konut_sinifi"] \in {Str(x) : x \in KonutSinifi}

\* C18: in a session, whose mapping starts as ensure_defaults({}) and changes
\* by merge_patch (patch values may be None or "", which overwrite), a chat
\* message that leaves the five mandatory fields present and non-empty and both
\* enums recognised gets Outputs and Warnings from compute_if_possible:
\* compute_outputs raises nothing.
C18_CompleteNeverFails ==
  (op = "chat" /\ CompleteScenario) => result.kind = "ok"

\* C19: in a session, an otopark_katsayi or insaat_maliyet_usd_m2 that
\* ensure_defaults filled from the default table (no patch or form supplied it)
\* keeps its value when a later chat message changes only otopark_tipi or
\* konut_sinifi, and the outputs computed for that message are derived from the
\* kept value, whatever the default of the new type or class is.
C19_DefaultRetained ==
  [][\A patch \in PatchSet :
       (/\ op' = "chat"
        /\ DOMAIN patch \subseteq {"otopark_tipi", "konut_sinifi"}
        /\ inputs' = merge_patch(inputs, patch)) =>
         \A k \in (TrackedKeys \cap DOMAIN inputs) \ DOMAIN supplied :
           /\ inputs'[k] = inputs[k]
           /\ (result'.kind = "ok" /\ k = "otopark_katsayi") =>
                result'.outputs.toplam_insaat_alani_m2 =
                  RMul(result'.outputs.satilabilir_alan_m2, inputs[k])
           /\ (result'.kind = "ok" /\ k = "insaat_maliyet_usd_m2") =>
                result'.outputs.insaat_maliyeti_usd =
                  RMul(result'.outputs.toplam_insaat_alani_m2, inputs[k])]_vars

C19_Witness ==
  /\ op = "chat"
  /\ result.kind = "ok"
  /\ "insaat_maliyet_usd_m2" \notin DOMAIN supplied
  /\ "otopark_katsayi" \notin DOMAIN supplied
  /\ inputs["otopark_tipi"] = Str("ACIK")
  /\ inputs["otopark_katsayi"] = Num(8, 5)
  /\ DEFAULTS.otopark_katsayi["ACIK"] = Num(6, 5)
  /\ inputs["konut_sinifi"] = Str("YUKSEK")
  /\ inputs["insaat_maliyet_usd_m2"] = Whole(900)
  /\ DEFAULTS.insaat_maliyet_usd_m2["YUKSEK"] = Whole(1100)
  /\ result.outputs.toplam_insaat_alani_m2 = Whole(18000)
  /\ result.outputs.insaat_maliyeti_usd = Whole(16200000)

\* C20: whenever sensitivity returns a non-empty grid, the parameters are in
\* revenue mode (the base Outputs carry a profit) and each of the 9 cells has a
\* profit_usd and a gross_margin that are not None; a scenario that
\* compute_outputs treats as cost-only, a present sale price <= 0 included, gets
\* the empty grid.
C20_GridOnlyInRevenueMode ==
  (op = "sensitivity" /\ sens.kind = "ok") =>
    /\ sens.grid # <<>> =>
         /\ sens.base.proje_kari_usd # None
         /\ \A i \in 1..Len(sens.grid) : \A j \in 1..Len(sens.grid[i]) :
              /\ sens.grid[i][j].profit_usd # None
              /\ sens.grid[i][j].gross_margin # None
    /\ sens.base.proje_kari_usd = None => sens.grid = <<>>

====
